---- MODULE Spec2Model ----
(***************************************************************************)
(* Revolving-credit statement engine of the cash-flow tracker API:         *)
(* the accrue handler (POST /api/debts/:id/accrue), the statement preview  *)
(* handler (GET /api/debts/:id/statement-preview) and the pure calculator  *)
(* (utils/creditStatementCalculator.js), over the CreditHistory sheet      *)
(* (statement store), the Expenses sheet (ledger) and the Debts sheet      *)
(* (account registry).                                                     *)
(*                                                                         *)
(* Conventions.  Amounts are integer cents.  A Date is the number of days  *)
(* since 1970-01-01 (the process runs with TZ=UTC, so local midnight and   *)
(* UTC midnight coincide).  An ISO date string "YYYY-MM-DD" is the tuple   *)
(* <<YYYY, MM, DD>>, compared lexicographically as JavaScript compares     *)
(* strings.  JavaScript null / undefined / NaN of a numeric slot is Null.  *)
(***************************************************************************)
EXTENDS Integers, Sequences, FiniteSets, TLC

\* ------------------------------------------------------------------ bounds
MaxRows == 2
MaxEvents == 3

\* ------------------------------------------------------- JavaScript values
Null == 0 - 1000000
IsFinite(x) == x # Null
Max(a, b) == IF a >= b THEN a ELSE b
Min(a, b) == IF a <= b THEN a ELSE b

\* Number(x.toFixed(2)) of the quotient num / den, in cents (num, den >= 0).
RoundDiv(num, den) == (2 * num + den) \div (2 * den)

\* ------------------------------------------------------------------- Date
DaysFromCivil(y, m, d) ==
    LET yy  == IF m <= 2 THEN y - 1 ELSE y
        era == yy \div 400
        yoe == yy - era * 400
        mp  == IF m > 2 THEN m - 3 ELSE m + 9
        doy == (153 * mp + 2) \div 5 + d - 1
        doe == yoe * 365 + yoe \div 4 - yoe \div 100 + doy
    IN  era * 146097 + doe - 719468

CivilFromDays(z0) ==
    LET z   == z0 + 719468
        era == z \div 146097
        doe == z - era * 146097
        yoe == (doe - doe \div 1460 + doe \div 36524 - doe \div 146096) \div 365
        doy == doe - (365 * yoe + yoe \div 4 - yoe \div 100)
        mp  == (5 * doy + 2) \div 153
        d   == doy - (153 * mp + 2) \div 5 + 1
        m   == IF mp < 10 THEN mp + 3 ELSE mp - 9
        y   == yoe + era * 400 + (IF m <= 2 THEN 1 ELSE 0)
    IN  <<y, m, d>>

\* The calendar the model runs in: 2023-07-01 .. 2025-06-30, tabulated.
FirstDay == DaysFromCivil(2023, 7, 1)
LastDay == DaysFromCivil(2025, 6, 30)
Calendar == [n \in FirstDay..LastDay |-> CivilFromDays(n)]
MonthStart == [k \in (2023 * 12 + 6)..(2025 * 12 + 5) |->
                 DaysFromCivil(k \div 12, (k % 12) + 1, 1)]

\* new Date(year, monthIndex, day): month and day overflow are normalised.
NewDate(y, m0, d) == MonthStart[y * 12 + m0] + d - 1

getFullYear(dt) == Calendar[dt][1]
getMonth(dt) == Calendar[dt][2] - 1
getDate(dt) == Calendar[dt][3]

\* date.toISOString().slice(0, 10)
toISOString(dt) == Calendar[dt]

\* new Date("YYYY-MM-DD")
ParseISO(s) == NewDate(s[1], s[2] - 1, s[3])

\* s < t on ISO date strings
IsoLess(s, t) ==
    \/ s[1] < t[1]
    \/ s[1] = t[1] /\ s[2] < t[2]
    \/ s[1] = t[1] /\ s[2] = t[2] /\ s[3] < t[3]


\* ----------------------------------------------------------- finance utils
\* utils/finance.js clampDay, creditStatementCalculator.js clampDay and the
\* handlers' local dayClamp are the same expression.
\* Variant: the day is not clamped to the length of the month.
clampDayNoMonthEnd(y, m0, d) == Max(1, d)

clampDay(y, m0, d) == Min(Max(1, d), getDate(NewDate(y, m0 + 1, 0)))

nextDateForDayOfMonth(targetDay, baseDate) ==
    LET InNextMonth(nextMonth) ==
            NewDate(getFullYear(nextMonth), getMonth(nextMonth),
                    clampDay(getFullYear(nextMonth), getMonth(nextMonth), targetDay))
        Pick(today, candidate) ==
            IF candidate < today
            THEN InNextMonth(NewDate(getFullYear(today), getMonth(today) + 1, 1))
            ELSE candidate
        From(today) ==
            Pick(today, NewDate(getFullYear(today), getMonth(today),
                                clampDay(getFullYear(today), getMonth(today), targetDay)))
    IN  IF ~IsFinite(targetDay) THEN Null
        ELSE From(NewDate(getFullYear(baseDate), getMonth(baseDate), getDate(baseDate)))

daysBetweenDates(fromDate, toDate) ==
    NewDate(getFullYear(toDate), getMonth(toDate), getDate(toDate))
      - NewDate(getFullYear(fromDate), getMonth(fromDate), getDate(fromDate))

\* ------------------------------------------------------------ Debts sheet
\* One row of Debts!A:K (the columns the engine reads).  An empty numeric
\* cell is Null; the active cell holds the text TRUE or FALSE.
DebtRow(id, balance, dueDay, cutOffDay, interesEfectivo, active) ==
    [id |-> id, balance |-> balance, dueDay |-> dueDay, cutOffDay |-> cutOffDay,
     interesEfectivo |-> interesEfectivo, active |-> active]

NoDebt == [id |-> "", balance |-> 0, dueDay |-> Null, cutOffDay |-> Null,
           interesEfectivo |-> 0, active |-> FALSE]

\* Variant: the active cell is not read, every account counts as active.
LoadDebtAllActive(row) ==
    [id              |-> row.id,
     balance         |-> IF row.balance = Null THEN 0 ELSE row.balance,
     dueDay          |-> row.dueDay,
     cutOffDay       |-> row.cutOffDay,
     interesEfectivo |-> IF row.interesEfectivo = Null THEN 0 ELSE row.interesEfectivo,
     active          |-> TRUE]

\* const debt = { id: row[0], balance: row[4] ? parseFloat(row[4]) : 0, ... }
LoadDebt(row) ==
    [id              |-> row.id,
     balance         |-> IF row.balance = Null THEN 0 ELSE row.balance,
     dueDay          |-> row.dueDay,
     cutOffDay       |-> row.cutOffDay,
     interesEfectivo |-> IF row.interesEfectivo = Null THEN 0 ELSE row.interesEfectivo,
     active          |-> row.active = "TRUE"]

\* Variant: an identifier that matches no row resolves to the first row.
FindDebtRowsOrFirst(rows, id) ==
    IF {i \in 1..Len(rows) : rows[i].id = id} = {} /\ Len(rows) > 0
    THEN {1}
    ELSE {i \in 1..Len(rows) : rows[i].id = id}

\* rows.slice(1).find(r => String(r[idx.id]) === String(id))
FindDebtRows(rows, id) == {i \in 1..Len(rows) : rows[i].id = id}
FindDebtRow(rows, id) ==
    rows[CHOOSE i \in FindDebtRows(rows, id) : \A j \in FindDebtRows(rows, id) : i <= j]

\* ----------------------------------------------------- period resolution
\* Variant: the upper limit of the month is off by one, month 13 passes.
PeriodInvalidOffByOne(period) ==
    /\ period # <<>>
    /\ (period[2] - 1 < 0 \/ period[2] - 1 > 12)

\* A period tag that passed /^\d{4}-\d{2}$/ is <<yyyy, mm>>; <<>> is no tag.
PeriodInvalid(period) ==
    /\ period # <<>>
    /\ (period[2] - 1 < 0 \/ period[2] - 1 > 11)

\* Variant: a reference date that is itself a cutoff day falls back to the
\* previous month's cutoff.
ResolveStatementDateAfterCut(debt, period, base) ==
    LET Tagged(y, m) ==
            IF IsFinite(debt.cutOffDay)
            THEN NewDate(y, m, clampDay(y, m, debt.cutOffDay))
            ELSE NewDate(y, m + 1, 0)
        InMonthOf(prevMonth) ==
            NewDate(getFullYear(prevMonth), getMonth(prevMonth),
                    clampDay(getFullYear(prevMonth), getMonth(prevMonth), debt.cutOffDay))
        Latest(currentMonthCut) ==
            IF getDate(base) > getDate(currentMonthCut)
            THEN currentMonthCut
            ELSE InMonthOf(NewDate(getFullYear(base), getMonth(base) - 1, 1))
    IN  IF period # <<>>
        THEN Tagged(period[1], period[2] - 1)
        ELSE IF IsFinite(debt.cutOffDay)
             THEN Latest(NewDate(getFullYear(base), getMonth(base),
                                 clampDay(getFullYear(base), getMonth(base),
                                          debt.cutOffDay)))
             ELSE NewDate(getFullYear(base), getMonth(base), 0)

\* debtController.js accrueDebt, step 2 (the same lines in the preview).
ResolveStatementDate(debt, period, base) ==
    LET Tagged(y, m) ==
            IF IsFinite(debt.cutOffDay)
            THEN NewDate(y, m, clampDay(y, m, debt.cutOffDay))
            ELSE NewDate(y, m + 1, 0)
        InMonthOf(prevMonth) ==
            NewDate(getFullYear(prevMonth), getMonth(prevMonth),
                    clampDay(getFullYear(prevMonth), getMonth(prevMonth), debt.cutOffDay))
        Latest(currentMonthCut) ==
            IF getDate(base) >= getDate(currentMonthCut)
            THEN currentMonthCut
            ELSE InMonthOf(NewDate(getFullYear(base), getMonth(base) - 1, 1))
    IN  IF period # <<>>
        THEN Tagged(period[1], period[2] - 1)
        ELSE IF IsFinite(debt.cutOffDay)
             THEN Latest(NewDate(getFullYear(base), getMonth(base),
                                 clampDay(getFullYear(base), getMonth(base),
                                          debt.cutOffDay)))
             ELSE NewDate(getFullYear(base), getMonth(base), 0)

ResolveDueDate(debt, statementDate) ==
    IF IsFinite(debt.dueDay)
    THEN nextDateForDayOfMonth(debt.dueDay, statementDate)
    ELSE NewDate(getFullYear(statementDate), getMonth(statementDate),
                 clampDay(getFullYear(statementDate), getMonth(statementDate), 25))

\* const startPeriod = new Date(y, m - 1, statementDate.getDate())
StartPeriod(statementDate) ==
    NewDate(getFullYear(statementDate), getMonth(statementDate) - 1, getDate(statementDate))

\* ----------------------------------------------------------------- ledger
\* One object of getExpensesObjects(): the Expenses columns the engine reads.
Expense(id, date, amount, debtId, entryType, status) ==
    [id |-> id, date |-> date, amount |-> amount, debtId |-> debtId,
     entryType |-> entryType, status |-> status]

\* The period events of one account in [start, end): debtController.js
\* 423-437 and creditStatementCalculator.js buildEvents 71-83.
RECURSIVE FilterEvents(_, _, _, _)
FilterEvents(exps, debtId, start, end) ==
    LET Keep(e) ==
            /\ e.debtId # ""
            /\ e.debtId = debtId
            /\ e.date # <<>>
            /\ ParseISO(e.date) >= start
            /\ ParseISO(e.date) < end
            /\ e.amount # Null
            /\ e.amount > 0
            /\ e.entryType \in {"charge", "payment"}
        Event(e) == [date |-> ParseISO(e.date), kind |-> e.entryType, amount |-> e.amount]
    IN  IF exps = <<>> THEN <<>>
        ELSE (IF Keep(Head(exps)) THEN <<Event(Head(exps))>> ELSE <<>>)
             \o FilterEvents(Tail(exps), debtId, start, end)

\* Variant: the comparator looks at the date alone, same-date events keep
\* the order of the ledger.
EventBeforeDateOnly(a, b) == a.date < b.date

\* The comparator of events.sort(): negative when a goes before b.
EventBefore(a, b) ==
    \/ a.date < b.date
    \/ a.date = b.date /\ a.kind = "payment" /\ b.kind = "charge"

\* Array.prototype.sort is stable: e goes after every element not after it.
InsertEvent(sorted, e) ==
    LET At(k) == SubSeq(sorted, 1, k - 1) \o <<e>> \o SubSeq(sorted, k, Len(sorted))
        First(later) ==
            IF later = {} THEN Len(sorted) + 1
            ELSE CHOOSE i \in later : \A j \in later : i <= j
    IN  At(First({i \in 1..Len(sorted) : EventBefore(e, sorted[i])}))

RECURSIVE SortEvents(_)
SortEvents(events) ==
    IF events = <<>> THEN <<>>
    ELSE InsertEvent(SortEvents(SubSeq(events, 1, Len(events) - 1)), events[Len(events)])

\* Variant: the window is closed, an event dated on its upper bound is kept.
buildEventsClosedWindow(exps, debtId, startInclusive, endExclusive) ==
    SortEvents(FilterEvents(exps, debtId, startInclusive, endExclusive + 1))

buildEvents(exps, debtId, startInclusive, endExclusive) ==
    SortEvents(FilterEvents(exps, debtId, startInclusive, endExclusive))

RECURSIVE SumKind(_, _)
SumKind(events, kind) ==
    IF events = <<>> THEN 0
    ELSE (IF Head(events).kind = kind THEN Head(events).amount ELSE 0)
         + SumKind(Tail(events), kind)

sumCharges(events) == SumKind(events, "charge")
sumPayments(events) == SumKind(events, "payment")

\* ----------------------------------------------------- interest calculator
\* The rate as a unit fraction, in hundredths (36 is 0.36).
normalizeAnnualRateToUnit(rate) ==
    IF rate = Null THEN 0
    ELSE IF rate > 1 THEN rate ELSE rate * 100

addSegment(st, until) ==
    LET Add(days) ==
            IF days > 0
            THEN [st EXCEPT !.nbBalanceDays = @ + st.nbBalance * days,
                            !.bBalanceDays  = @ + st.bBalance * days,
                            !.cursor        = until]
            ELSE st
    IN  Add(daysBetweenDates(st.cursor, until))

\* Variant: the remainder of a payment is taken from b without the floor.
applyEventNoFloor(st, ev) ==
    LET Pay(appliedToNb) ==
            [st EXCEPT !.nbBalance = @ - appliedToNb,
                       !.bBalance  = @ - (ev.amount - appliedToNb)]
    IN  IF ev.kind = "payment" THEN Pay(Min(st.nbBalance, ev.amount))
        ELSE IF ev.kind = "charge"
             THEN [st EXCEPT !.bBalance = @ + ev.amount]
             ELSE st

\* Variant: a charge increases the carried balance.
applyEventChargeToCarried(st, ev) ==
    LET Pay(appliedToNb) ==
            [st EXCEPT !.nbBalance = @ - appliedToNb,
                       !.bBalance  = Max(0, @ - (ev.amount - appliedToNb))]
    IN  IF ev.kind = "payment" THEN Pay(Min(st.nbBalance, ev.amount))
        ELSE IF ev.kind = "charge"
             THEN [st EXCEPT !.nbBalance = @ + ev.amount]
             ELSE st

applyEvent(st, ev) ==
    LET Pay(appliedToNb) ==
            [st EXCEPT !.nbBalance = @ - appliedToNb,
                       !.bBalance  = Max(0, @ - (ev.amount - appliedToNb))]
    IN  IF ev.kind = "payment" THEN Pay(Min(st.nbBalance, ev.amount))
        ELSE IF ev.kind = "charge"
             THEN [st EXCEPT !.bBalance = @ + ev.amount]
             ELSE st

RECURSIVE walkEvents(_, _)
walkEvents(st, events) ==
    IF events = <<>> THEN st
    ELSE walkEvents(applyEvent(addSegment(st, Head(events).date), Head(events)),
                    Tail(events))

\* creditStatementCalculator.js computeSpdInterests; debtController.js
\* 449-475 and 648-674 inline the same walk.
computeSpdInterests(previousBalance, events, annualRateUnit, start, end) ==
    LET Out(st) ==
            [interestSobreSaldo  |-> RoundDiv(st.nbBalanceDays * annualRateUnit, 36500),
             interestBonificable |-> RoundDiv(st.bBalanceDays * annualRateUnit, 36500)]
    IN  Out(addSegment(walkEvents([nbBalance |-> Max(0, previousBalance),
                                   bBalance |-> 0, nbBalanceDays |-> 0,
                                   bBalanceDays |-> 0, cursor |-> start],
                                  events),
                       end))

\* Variant: the balance is not floored at zero.
computeStatementUnclamped(previousBalance, charges, interests, payments) ==
    previousBalance + charges + interests - payments

computeStatement(previousBalance, charges, interests, payments) ==
    Max(0, previousBalance + charges + interests - payments)

computeInstallmentBalance(statementBalance, bonificable) ==
    statementBalance + bonificable

\* Imported by debtController.js from creditStatementCalculator.js, which
\* does not define it: the carry-over rule of the statement assembler.
computeInterestCarryOver(previousRecord, prevPaid) ==
    Max(0, previousRecord.bonifiableInterest - prevPaid)

\* googleSheetsService.js sumPaymentsForDebt: payments of the account dated
\* in [startISO, endISO], both ends included.
RECURSIVE sumPaymentsForDebt(_, _, _, _)
sumPaymentsForDebt(exps, debtId, startISO, endISO) ==
    LET Counts(e) ==
            /\ e.debtId # ""
            /\ e.date # <<>>
            /\ e.debtId = debtId
            /\ e.entryType = "payment"
            /\ ParseISO(e.date) >= ParseISO(startISO)
            /\ ParseISO(e.date) <= ParseISO(endISO)
            /\ e.amount # Null
    IN  IF exps = <<>> THEN 0
        ELSE (IF Counts(Head(exps)) THEN Head(exps).amount ELSE 0)
             + sumPaymentsForDebt(Tail(exps), debtId, startISO, endISO)

\* ----------------------------------------------------- CreditHistory sheet
\* The record object built by the handlers.  termMonths is always null.
BlankRecord ==
    [debtId |-> "", statementDate |-> <<>>, dueDate |-> <<>>,
     previousBalance |-> Null, charges |-> Null, interests |-> Null,
     payments |-> Null, statementBalance |-> Null, bonifiableInterest |-> Null,
     installmentBalance |-> Null, annualEffectiveRate |-> Null,
     termMonths |-> Null, periodDays |-> Null, paymentMade |-> Null]

\* Variant: the charges and payments cells are written in each other's column.
RowOfRecordSwapped(record) ==
    <<record.debtId, record.statementDate, record.dueDate,
      record.previousBalance, record.payments, record.interests,
      record.charges, record.statementBalance, record.bonifiableInterest,
      record.installmentBalance, record.annualEffectiveRate,
      record.termMonths, record.periodDays, record.paymentMade>>

\* The values [[...]] array of appendCreditHistoryRecord and
\* updateCreditHistoryRow: one row of CreditHistory!A:N.  String(number)
\* is written as the number it denotes; String(null) reads back as null.
RowOfRecord(record) ==
    <<record.debtId, record.statementDate, record.dueDate,
      record.previousBalance, record.charges, record.interests,
      record.payments, record.statementBalance, record.bonifiableInterest,
      record.installmentBalance, record.annualEffectiveRate,
      record.termMonths, record.periodDays, record.paymentMade>>

\* mapRowsToObjects + coerceTypesForSheet(.., 'CreditHistory') on one row.
ObjectOfRow(row) ==
    [debtId |-> row[1], statementDate |-> row[2], dueDate |-> row[3],
     previousBalance |-> row[4], charges |-> row[5], interests |-> row[6],
     payments |-> row[7], statementBalance |-> row[8],
     bonifiableInterest |-> row[9], installmentBalance |-> row[10],
     annualEffectiveRate |-> row[11], termMonths |-> row[12],
     periodDays |-> row[13], paymentMade |-> row[14]]

getCreditHistoryObjects(rows) == [i \in 1..Len(rows) |-> ObjectOfRow(rows[i])]

\* Variant: the row lookup never finds the key.
findCreditHistoryRowMissing(rows, debtId, statementDateISO) == Null

\* findCreditHistoryRow: the 1-based sheet row (row 1 is the header) of the
\* first data row with the key, or Null.
findCreditHistoryRow(rows, debtId, statementDateISO) ==
    LET First(I) == IF I = {} THEN Null
                    ELSE (CHOOSE i \in I : \A j \in I : i <= j) + 1
    IN  First({i \in 1..Len(rows) :
                 rows[i][1] = debtId /\ rows[i][2] = statementDateISO})

\* getCreditHistoryByRow: the record parsed from sheet row rowNumber.
getCreditHistoryByRow(rows, rowNumber) ==
    IF rowNumber - 1 \in 1..Len(rows)
    THEN ObjectOfRow(rows[rowNumber - 1])
    ELSE [BlankRecord EXCEPT !.previousBalance = 0, !.charges = 0, !.interests = 0,
                             !.payments = 0, !.statementBalance = 0,
                             !.bonifiableInterest = 0, !.installmentBalance = 0,
                             !.annualEffectiveRate = 0, !.periodDays = 0,
                             !.paymentMade = 0]

\* Variant: the header row is not counted, the row below is overwritten.
updateCreditHistoryRowBelow(rows, rowNumber, record) ==
    [rows EXCEPT ![rowNumber] = RowOfRecord(record)]

\* updateCreditHistoryRow: PUT of CreditHistory!A<row>:N<row>.
updateCreditHistoryRow(rows, rowNumber, record) ==
    [rows EXCEPT ![rowNumber - 1] = RowOfRecord(record)]

\* appendCreditHistoryRecord: POST ...:append.
appendCreditHistoryRecord(rows, record) == Append(rows, RowOfRecord(record))

\* history.some(h => h.debtId === id && h.statementDate === statementDateStr)
HistoryHasKey(objs, id, statementDateStr) ==
    \E i \in 1..Len(objs) :
        objs[i].debtId = id /\ objs[i].statementDate = statementDateStr

\* Variant: the records of every account are candidates.
LastForDebtSetAnyAccount(objs, id, statementDateStr) ==
    LET Latest(C) ==
            {objs[i] : i \in {i \in C : \A j \in C :
                         ~IsoLess(objs[i].statementDate, objs[j].statementDate)}}
    IN  Latest({i \in 1..Len(objs) :
                  /\ objs[i].statementDate # <<>>
                  /\ IsoLess(objs[i].statementDate, statementDateStr)})

\* The candidates for lastForDebt: the records of the account dated before
\* the statement date that the descending sort can put first.  The
\* comparator never returns 0, so equal dates may come out in either order.
LastForDebtSet(objs, id, statementDateStr) ==
    LET Latest(C) ==
            {objs[i] : i \in {i \in C : \A j \in C :
                         ~IsoLess(objs[i].statementDate, objs[j].statementDate)}}
    IN  Latest({i \in 1..Len(objs) :
                  /\ objs[i].debtId = id
                  /\ objs[i].statementDate # <<>>
                  /\ IsoLess(objs[i].statementDate, statementDateStr)})

PreviousBalanceOf(lastForDebt, debt) ==
    IF lastForDebt.debtId # "" /\ IsFinite(lastForDebt.statementBalance)
    THEN lastForDebt.statementBalance
    ELSE IF IsFinite(debt.balance) THEN debt.balance ELSE 0

\* ------------------------------------------------------------------ state
VARIABLES
    debts,      \* the data rows of the Debts sheet (account registry)
    expenses,   \* the data rows of the Expenses sheet (ledger), as objects
    history,    \* the data rows of the CreditHistory sheet (statement store)
    req         \* the handler invocations in flight, one per request slot

vars == <<debts, expenses, history, req>>

Procs == {1, 2}

\* The accounts of the registry and the identifiers a request may carry.
DebtRows ==
    << DebtRow("d1", 100, 5, 31, 36, "TRUE"),
       DebtRow("d2", 5000, Null, Null, 1, "TRUE"),
       DebtRow("d3", 7000, 10, 15, 20, "FALSE") >>
DebtIds == {"d1", "d2", "d3", "dX"}

\* The period tags and reference dates a request may carry.
Periods == {<<2024, 2>>, <<2024, 3>>, <<2024, 13>>, <<2024, 0>>}
BaseDates == {NewDate(2024, 2, 10)}

\* The period dates a caller of calculateStatement may pass.
PeriodDates == {NewDate(2024, 2, 10), NewDate(2024, 2, 31)}

\* The accounts a client may deactivate (PUT /api/debts/:id, body {active}).
UpdatedDebtIds == {"d2"}
ActiveValues == {FALSE}

\* The ledger rows the environment may add, each at most once.
ExpensePool ==
    { Expense("e1", <<2024, 2, 5>>, 20000, "d1", "charge", ""),
      Expense("e2", <<2024, 3, 3>>, 150, "d1", "payment", "") }

Idle ==
    [op |-> "none", pc |-> "idle", id |-> "", recompute |-> FALSE,
     period |-> <<>>, base |-> Null,
     debt |-> NoDebt, statementDate |-> Null, dueDate |-> Null,
     exists |-> FALSE, previousRowNumber |-> Null,
     previousRecord |-> BlankRecord, lastForDebt |-> BlankRecord,
     previousBalance |-> Null, charges |-> Null, payments |-> Null,
     interestSobreSaldo |-> Null, interestBonificable |-> Null,
     interestCarryOver |-> Null, periodDays |-> Null,
     record |-> BlankRecord, result |-> "none", writes |-> 0]

\* The invocation has answered: its locals are gone, the response stays
\* until the slot is reused.
Answer(r, result, record) ==
    [Idle EXCEPT !.op = r.op, !.pc = "done", !.id = r.id,
                 !.recompute = r.recompute, !.period = r.period, !.base = r.base,
                 !.statementDate = r.statementDate, !.exists = r.exists,
                 !.writes = r.writes, !.result = result, !.record = record]

HttpStatus(result) ==
    CASE result \in {"created", "skipped", "cached", "preview"} -> 200
      [] result = "NotFound" -> 404
      [] result = "InvalidArgument" -> 400
      [] OTHER -> 500

Init ==
    /\ debts = DebtRows
    /\ expenses = <<>>
    /\ history = <<>>
    /\ req = [p \in Procs |-> Idle]

\* ---------------------------------------------------------- accrue handler
\* POST /api/debts/:id/accrue arrives (the validators let it through) and
\* getDebts answers: 1) load debt, 2) resolve statementDate and dueDate.
AccrueLoadDebt(p, id, recompute, period, base) ==
    LET r == [Idle EXCEPT !.op = "accrue", !.id = id, !.recompute = recompute,
                          !.period = period, !.base = base]
    IN
    /\ req[p].pc = "idle"
    /\ IF FindDebtRows(debts, id) = {}
       THEN req' = [req EXCEPT ![p] = Answer(r, "NotFound", BlankRecord)]
       ELSE LET debt == LoadDebt(FindDebtRow(debts, id)) IN
            IF ~debt.active
            THEN req' = [req EXCEPT ![p] = Answer(r, "skipped", BlankRecord)]
            ELSE IF PeriodInvalid(period)
            THEN req' = [req EXCEPT ![p] = Answer(r, "InvalidArgument", BlankRecord)]
            ELSE LET sd == ResolveStatementDate(debt, period, base) IN
                 req' = [req EXCEPT ![p] =
                           [r EXCEPT !.pc = "getHistory", !.debt = debt,
                                     !.statementDate = sd,
                                     !.dueDate = ResolveDueDate(debt, sd)]]
    /\ UNCHANGED <<debts, expenses, history>>

\* Variant: the check never stops the call, a recorded key is recomputed
\* whatever recompute says.
AccrueCheckHistoryNoStop(p) ==
    LET r    == req[p]
        objs == getCreditHistoryObjects(history)
        sdStr == toISOString(r.statementDate)
        exists == HistoryHasKey(objs, r.id, sdStr)
        lasts == LastForDebtSet(objs, r.id, sdStr)
    IN
    /\ r.op = "accrue" /\ r.pc = "getHistory"
    /\ \E last \in (IF lasts = {} THEN {BlankRecord} ELSE lasts) :
         req' = [req EXCEPT ![p] =
                   [r EXCEPT !.pc = IF exists THEN "findRow" ELSE "getExpenses",
                             !.exists = exists,
                             !.lastForDebt = last,
                             !.previousBalance = PreviousBalanceOf(last, r.debt)]]
    /\ UNCHANGED <<debts, expenses, history>>

\* 3) Idempotency check on the history just read, 4) previous balance.
\* With a record present and recompute=false the condition evaluates the
\* identifier dryRun, which the module never declares: a ReferenceError,
\* caught by the handler's catch and passed to next(error).
AccrueCheckHistory(p) ==
    LET r    == req[p]
        objs == getCreditHistoryObjects(history)
        sdStr == toISOString(r.statementDate)
        exists == HistoryHasKey(objs, r.id, sdStr)
        lasts == LastForDebtSet(objs, r.id, sdStr)
    IN
    /\ r.op = "accrue" /\ r.pc = "getHistory"
    /\ IF exists /\ ~r.recompute
       THEN req' = [req EXCEPT ![p] =
                      Answer([r EXCEPT !.exists = TRUE], "ReferenceError", BlankRecord)]
       ELSE \E last \in (IF lasts = {} THEN {BlankRecord} ELSE lasts) :
              req' = [req EXCEPT ![p] =
                        [r EXCEPT !.pc = IF exists THEN "findRow" ELSE "getExpenses",
                                  !.exists = exists,
                                  !.lastForDebt = last,
                                  !.previousBalance = PreviousBalanceOf(last, r.debt)]]
    /\ UNCHANGED <<debts, expenses, history>>

\* previousRowNumber = await findCreditHistoryRow(id, statementDateStr)
AccrueFindRow(p) ==
    LET r   == req[p]
        row == findCreditHistoryRow(history, r.id, toISOString(r.statementDate))
    IN
    /\ r.op = "accrue" /\ r.pc = "findRow"
    /\ req' = [req EXCEPT ![p] =
                 [r EXCEPT !.previousRowNumber = row,
                           !.pc = IF row # Null THEN "getRow" ELSE "getExpenses"]]
    /\ UNCHANGED <<debts, expenses, history>>

\* previousRecord = await getCreditHistoryByRow(previousRowNumber)
AccrueGetRow(p) ==
    LET r == req[p] IN
    /\ r.op = "accrue" /\ r.pc = "getRow"
    /\ req' = [req EXCEPT ![p] =
                 [r EXCEPT !.previousRecord =
                               getCreditHistoryByRow(history, r.previousRowNumber),
                           !.pc = "getExpenses"]]
    /\ UNCHANGED <<debts, expenses, history>>

\* 5) The period events and the interest walk.
AccrueReadExpenses(p) ==
    LET r == req[p]
        Read(start, events, spd) ==
            [r EXCEPT !.charges = sumCharges(events),
                      !.payments = sumPayments(events),
                      !.interestSobreSaldo = spd.interestSobreSaldo,
                      !.interestBonificable = spd.interestBonificable,
                      !.periodDays = daysBetweenDates(start, r.statementDate),
                      !.interestCarryOver = 0,
                      !.pc = IF r.previousRecord.debtId # ""
                             THEN "carryOver" ELSE "paymentMade"]
        Walk(start, events) ==
            Read(start, events,
                 computeSpdInterests(r.previousBalance, events,
                                     normalizeAnnualRateToUnit(r.debt.interesEfectivo),
                                     start, r.statementDate))
        From(start) == Walk(start, buildEvents(expenses, r.id, start, r.statementDate))
    IN
    /\ r.op = "accrue" /\ r.pc = "getExpenses"
    /\ req' = [req EXCEPT ![p] = From(StartPeriod(r.statementDate))]
    /\ UNCHANGED <<debts, expenses, history>>

\* prevPaid = await sumPaymentsForDebt(id, previousRecord.statementDate,
\* previousRecord.dueDate), inside try { } catch { interestCarryOver = 0 }.
AccrueCarryOver(p) ==
    LET r == req[p]
        prevPaid == sumPaymentsForDebt(expenses, r.id, r.previousRecord.statementDate,
                                       r.previousRecord.dueDate)
    IN
    /\ r.op = "accrue" /\ r.pc = "carryOver"
    /\ req' = [req EXCEPT ![p] =
                 [r EXCEPT !.interestCarryOver =
                               computeInterestCarryOver(r.previousRecord, prevPaid),
                           !.pc = "paymentMade"]]
    /\ UNCHANGED <<debts, expenses, history>>

\* Variant: the installment balance leaves the bonifiable interest out.
AccrueRecordNoBonifiable(r, paymentMade) ==
    LET interests          == r.interestSobreSaldo + r.interestCarryOver
        statementBalance   == Max(0, r.previousBalance + r.charges + interests - r.payments)
    IN  [debtId |-> r.id,
         statementDate |-> toISOString(r.statementDate),
         dueDate |-> toISOString(r.dueDate),
         previousBalance |-> r.previousBalance,
         charges |-> r.charges,
         interests |-> interests,
         payments |-> r.payments,
         statementBalance |-> statementBalance,
         bonifiableInterest |-> r.interestBonificable,
         installmentBalance |-> statementBalance,
         annualEffectiveRate |-> normalizeAnnualRateToUnit(r.debt.interesEfectivo),
         termMonths |-> Null,
         periodDays |-> r.periodDays,
         paymentMade |-> paymentMade]

\* The record object of step 7, whose last field awaits sumPaymentsForDebt.
AccrueRecord(r, paymentMade) ==
    LET interests          == r.interestSobreSaldo + r.interestCarryOver
        bonifiableInterest == r.interestBonificable
        statementBalance   == Max(0, r.previousBalance + r.charges + interests - r.payments)
        installmentBalance == statementBalance + bonifiableInterest
    IN  [debtId |-> r.id,
         statementDate |-> toISOString(r.statementDate),
         dueDate |-> toISOString(r.dueDate),
         previousBalance |-> r.previousBalance,
         charges |-> r.charges,
         interests |-> interests,
         payments |-> r.payments,
         statementBalance |-> statementBalance,
         bonifiableInterest |-> bonifiableInterest,
         installmentBalance |-> installmentBalance,
         annualEffectiveRate |-> normalizeAnnualRateToUnit(r.debt.interesEfectivo),
         termMonths |-> Null,
         periodDays |-> r.periodDays,
         paymentMade |-> paymentMade]

AccruePaymentMade(p) ==
    LET r == req[p]
        paymentMade == sumPaymentsForDebt(expenses, r.id, toISOString(r.statementDate),
                                          toISOString(r.dueDate))
    IN
    /\ r.op = "accrue" /\ r.pc = "paymentMade"
    /\ req' = [req EXCEPT ![p] =
                 [r EXCEPT !.record = AccrueRecord(r, paymentMade), !.pc = "persist"]]
    /\ UNCHANGED <<debts, expenses, history>>

\* Variant: persisting the record also adds its interests to the balance
\* of the account.
AccruePersistAdjustsBalance(p) ==
    LET r == req[p] IN
    /\ r.op = "accrue" /\ r.pc = "persist"
    /\ IF r.exists /\ r.previousRowNumber # Null /\ r.recompute
       THEN history' = updateCreditHistoryRow(history, r.previousRowNumber, r.record)
       ELSE /\ Len(history) < MaxRows
            /\ history' = appendCreditHistoryRecord(history, r.record)
    /\ req' = [req EXCEPT ![p] =
                 Answer([r EXCEPT !.writes = @ + 1], "created", r.record)]
    /\ debts' = [i \in 1..Len(debts) |->
                   IF debts[i].id = r.id
                   THEN [debts[i] EXCEPT !.balance = r.record.statementBalance]
                   ELSE debts[i]]
    /\ UNCHANGED expenses

\* 7) Persist: update the row found, else append; then answer 200.
AccruePersist(p) ==
    LET r == req[p] IN
    /\ r.op = "accrue" /\ r.pc = "persist"
    /\ IF r.exists /\ r.previousRowNumber # Null /\ r.recompute
       THEN history' = updateCreditHistoryRow(history, r.previousRowNumber, r.record)
       ELSE /\ Len(history) < MaxRows
            /\ history' = appendCreditHistoryRecord(history, r.record)
    /\ req' = [req EXCEPT ![p] =
                 Answer([r EXCEPT !.writes = @ + 1], "created", r.record)]
    /\ UNCHANGED <<debts, expenses>>

\* A request to the sheets API fails (makeRequest throws): the handler's
\* catch passes the error on, except inside the carry-over try/catch,
\* where the failure is swallowed and the carry-over is left at 0.
IOFail(p) ==
    LET r == req[p] IN
    /\ r.pc \in {"getHistory", "findRow", "getRow", "getExpenses",
                 "carryOver", "paymentMade", "persist"}
    /\ IF r.pc = "carryOver"
       THEN req' = [req EXCEPT ![p] = [r EXCEPT !.interestCarryOver = 0,
                                                !.pc = "paymentMade"]]
       ELSE req' = [req EXCEPT ![p] = Answer(r, "IOError", BlankRecord)]
    /\ UNCHANGED <<debts, expenses, history>>

\* The request arrives and its first read, getDebts, fails.
GetDebtsFail(p, op, id, recompute, period, base) ==
    /\ req[p].pc = "idle"
    /\ req' = [req EXCEPT ![p] =
                 Answer([Idle EXCEPT !.op = op, !.id = id, !.recompute = recompute,
                                     !.period = period, !.base = base],
                        "IOError", BlankRecord)]
    /\ UNCHANGED <<debts, expenses, history>>

\* The response has been sent; the request slot is free again.
Return(p) ==
    /\ req[p].pc = "done"
    /\ req' = [req EXCEPT ![p] = Idle]
    /\ UNCHANGED <<debts, expenses, history>>

\* --------------------------------------------------------- preview handler
\* GET /api/debts/:id/statement-preview arrives and getDebts answers: load
\* debt, resolve dates.
PreviewLoadDebt(p, id, recompute, period, base) ==
    LET r == [Idle EXCEPT !.op = "preview", !.id = id, !.recompute = recompute,
                          !.period = period, !.base = base]
    IN
    /\ req[p].pc = "idle"
    /\ IF FindDebtRows(debts, id) = {}
       THEN req' = [req EXCEPT ![p] = Answer(r, "NotFound", BlankRecord)]
       ELSE LET debt == LoadDebt(FindDebtRow(debts, id)) IN
            IF ~debt.active
            THEN req' = [req EXCEPT ![p] = Answer(r, "skipped", BlankRecord)]
            ELSE IF PeriodInvalid(period)
            THEN req' = [req EXCEPT ![p] = Answer(r, "InvalidArgument", BlankRecord)]
            ELSE LET sd == ResolveStatementDate(debt, period, base) IN
                 req' = [req EXCEPT ![p] =
                           [r EXCEPT !.pc = "getHistory", !.debt = debt,
                                     !.statementDate = sd,
                                     !.dueDate = ResolveDueDate(debt, sd)]]
    /\ UNCHANGED <<debts, expenses, history>>

\* history.find(..): the first record with the key is returned as cached
\* when recompute is false.
PreviewCheckHistory(p) ==
    LET r     == req[p]
        objs  == getCreditHistoryObjects(history)
        sdStr == toISOString(r.statementDate)
        exists == HistoryHasKey(objs, r.id, sdStr)
        lasts == LastForDebtSet(objs, r.id, sdStr)
    IN
    /\ r.op = "preview" /\ r.pc = "getHistory"
    /\ IF exists /\ ~r.recompute
       THEN LET I == {i \in 1..Len(objs) :
                        objs[i].debtId = r.id /\ objs[i].statementDate = sdStr}
                existing == objs[CHOOSE i \in I : \A j \in I : i <= j]
            IN  req' = [req EXCEPT ![p] =
                          Answer([r EXCEPT !.exists = TRUE], "cached", existing)]
       ELSE \E last \in (IF lasts = {} THEN {BlankRecord} ELSE lasts) :
              req' = [req EXCEPT ![p] =
                        [r EXCEPT !.pc = "getExpenses",
                                  !.exists = exists,
                                  !.lastForDebt = last,
                                  !.previousBalance = PreviousBalanceOf(last, r.debt)]]
    /\ UNCHANGED <<debts, expenses, history>>

PreviewReadExpenses(p) ==
    LET r == req[p]
        Read(start, events, spd) ==
            [r EXCEPT !.charges = sumCharges(events),
                      !.payments = sumPayments(events),
                      !.interestSobreSaldo = spd.interestSobreSaldo,
                      !.interestBonificable = spd.interestBonificable,
                      !.periodDays = daysBetweenDates(start, r.statementDate),
                      !.interestCarryOver = 0,
                      !.pc = IF r.lastForDebt.debtId # ""
                             THEN "carryOver" ELSE "paymentMade"]
        Walk(start, events) ==
            Read(start, events,
                 computeSpdInterests(r.previousBalance, events,
                                     normalizeAnnualRateToUnit(r.debt.interesEfectivo),
                                     start, r.statementDate))
        From(start) == Walk(start, buildEvents(expenses, r.id, start, r.statementDate))
    IN
    /\ r.op = "preview" /\ r.pc = "getExpenses"
    /\ req' = [req EXCEPT ![p] = From(StartPeriod(r.statementDate))]
    /\ UNCHANGED <<debts, expenses, history>>

PreviewCarryOver(p) ==
    LET r == req[p]
        prevPaid == sumPaymentsForDebt(expenses, r.id, r.lastForDebt.statementDate,
                                       r.lastForDebt.dueDate)
    IN
    /\ r.op = "preview" /\ r.pc = "carryOver"
    /\ req' = [req EXCEPT ![p] =
                 [r EXCEPT !.interestCarryOver =
                               computeInterestCarryOver(r.lastForDebt, prevPaid),
                           !.pc = "paymentMade"]]
    /\ UNCHANGED <<debts, expenses, history>>

\* The data object of the preview response.
PreviewRecord(r, paymentMade) ==
    LET interests          == r.interestSobreSaldo + r.interestCarryOver
        bonifiableInterest == r.interestBonificable
        statementBalance   == Max(0, r.previousBalance + r.charges + interests - r.payments)
        installmentBalance == statementBalance + bonifiableInterest
    IN  [debtId |-> r.id,
         statementDate |-> toISOString(r.statementDate),
         dueDate |-> toISOString(r.dueDate),
         previousBalance |-> r.previousBalance,
         charges |-> r.charges,
         interests |-> interests,
         payments |-> r.payments,
         statementBalance |-> statementBalance,
         bonifiableInterest |-> bonifiableInterest,
         installmentBalance |-> installmentBalance,
         annualEffectiveRate |-> normalizeAnnualRateToUnit(r.debt.interesEfectivo),
         termMonths |-> Null,
         periodDays |-> r.periodDays,
         paymentMade |-> paymentMade]

\* Variant: the preview appends the statement it computed.
PreviewPaymentMadeAppends(p) ==
    LET r == req[p]
        paymentMade == sumPaymentsForDebt(expenses, r.id, toISOString(r.statementDate),
                                          toISOString(r.dueDate))
    IN
    /\ r.op = "preview" /\ r.pc = "paymentMade"
    /\ Len(history) < MaxRows
    /\ req' = [req EXCEPT ![p] = Answer(r, "preview", PreviewRecord(r, paymentMade))]
    /\ history' = appendCreditHistoryRecord(history, PreviewRecord(r, paymentMade))
    /\ UNCHANGED <<debts, expenses>>

PreviewPaymentMade(p) ==
    LET r == req[p]
        paymentMade == sumPaymentsForDebt(expenses, r.id, toISOString(r.statementDate),
                                          toISOString(r.dueDate))
    IN
    /\ r.op = "preview" /\ r.pc = "paymentMade"
    /\ req' = [req EXCEPT ![p] = Answer(r, "preview", PreviewRecord(r, paymentMade))]
    /\ UNCHANGED <<debts, expenses, history>>

\* --------------------------------------------------------- pure calculator
resolvePeriodBounds(cutOffDay, dueDay, baseDate) ==
    LET InMonth(y, m, day) == NewDate(y, m, clampDay(y, m, day))
        InMonthOf(first, day) == InMonth(getFullYear(first), getMonth(first), day)
        Latest(currentMonthCut, y, m) ==
            IF getDate(baseDate) >= getDate(currentMonthCut)
            THEN currentMonthCut
            ELSE InMonthOf(NewDate(y, m - 1, 1), cutOffDay)
        Current(y, m) ==
            IF IsFinite(cutOffDay)
            THEN Latest(InMonth(y, m, cutOffDay), y, m)
            ELSE NewDate(y, m, 0)
        Out(prevStatementDate, statementDate, nextStatementDate, dueDate) ==
            [prevStatementDate |-> prevStatementDate, statementDate |-> statementDate,
             nextStatementDate |-> nextStatementDate, dueDate |-> dueDate,
             periodDays |-> daysBetweenDates(prevStatementDate, statementDate)]
        Around(statementDate, sy, sm) ==
            Out(IF IsFinite(cutOffDay)
                THEN InMonthOf(NewDate(sy, sm - 1, 1), cutOffDay)
                ELSE NewDate(sy, sm, 0),
                statementDate,
                IF IsFinite(cutOffDay)
                THEN InMonth(sy, sm + 1, cutOffDay)
                ELSE NewDate(sy, sm + 1, 0),
                IF IsFinite(dueDay)
                THEN InMonth(sy, sm, dueDay)
                ELSE InMonth(sy, sm, 25))
        Bounds(statementDate) ==
            Around(statementDate, getFullYear(statementDate), getMonth(statementDate))
    IN  Bounds(Current(getFullYear(baseDate), getMonth(baseDate)))

\* calculateStatement({debt, expenses, periodDate}, opts); optPreviousBalance
\* is opts.previousBalance, Null when absent.
calculateStatement(debt, exps, periodDate, optPreviousBalance) ==
    LET Out(b, annualUnit, previousBalance, charges, payments, spd) ==
            [previousBalance |-> previousBalance,
             charges |-> charges,
             interests |-> spd.interestSobreSaldo,
             payments |-> payments,
             statementBalance |->
                 computeStatement(previousBalance, charges,
                                  spd.interestSobreSaldo, payments),
             bonifiableInterest |-> spd.interestBonificable,
             installmentBalance |->
                 computeInstallmentBalance(
                     computeStatement(previousBalance, charges,
                                      spd.interestSobreSaldo, payments),
                     spd.interestBonificable),
             annualEffectiveRate |-> annualUnit,
             periodDays |-> b.periodDays,
             dates |-> [prevStatementDate |-> toISOString(b.prevStatementDate),
                        statementDate |-> toISOString(b.statementDate),
                        nextStatementDate |-> toISOString(b.nextStatementDate),
                        dueDate |-> toISOString(b.dueDate)]]
        Walk(b, annualUnit, previousBalance, periodEvents) ==
            Out(b, annualUnit, previousBalance,
                sumCharges(periodEvents), sumPayments(periodEvents),
                computeSpdInterests(previousBalance, periodEvents, annualUnit,
                                    b.prevStatementDate, b.nextStatementDate))
        In(b) ==
            Walk(b, normalizeAnnualRateToUnit(debt.interesEfectivo),
                 IF IsFinite(optPreviousBalance) THEN optPreviousBalance
                 ELSE IF IsFinite(debt.balance) THEN debt.balance ELSE 0,
                 buildEvents(exps, debt.id, b.prevStatementDate, b.statementDate))
    IN  In(resolvePeriodBounds(debt.cutOffDay, debt.dueDay, periodDate))

\* The previous balances a caller of calculateStatement may pass in opts.
OptBalances == {Null, 2500}

\* A synchronous call of calculateStatement on an account of the registry
\* and the current ledger.
Calculate(p, i, periodDate, optPreviousBalance) ==
    /\ req[p].pc = "idle"
    /\ i \in 1..Len(debts)
    /\ req' = [req EXCEPT ![p] =
                 [Idle EXCEPT !.op = "calculate", !.pc = "done",
                              !.id = debts[i].id, !.base = periodDate,
                              !.result = "calculated",
                              !.record = calculateStatement(LoadDebt(debts[i]), expenses,
                                                            periodDate, optPreviousBalance)]]
    /\ UNCHANGED <<debts, expenses, history>>

\* ------------------------------------------------------------ ledger writer
\* googleSheetsService.js addExpense: append the row, then adjust the
\* balance of the account (charges add, paid payments subtract).
AddExpense(e) ==
    /\ \A i \in 1..Len(expenses) : expenses[i].id # e.id
    /\ expenses' = Append(expenses, e)
    /\ LET isCredit  == e.debtId # ""
           isPayment == e.entryType = "payment"
           isPaid    == e.status = "paid"
           isCharge  == e.entryType = "charge"
           delta     == (IF isCredit /\ isPayment /\ isPaid THEN 0 - e.amount ELSE 0)
                        + (IF isCredit /\ isCharge THEN e.amount ELSE 0)
       IN  debts' = [i \in 1..Len(debts) |->
                       IF debts[i].id = e.debtId /\ delta # 0
                       THEN [debts[i] EXCEPT !.balance =
                                (IF @ = Null THEN 0 ELSE @) + delta]
                       ELSE debts[i]]
    /\ UNCHANGED <<history, req>>

\* ---------------------------------------------------------- registry writer
\* PUT /api/debts/:id with body {active}: updateDebt merges the body into
\* the row of the account and writes the row back.
UpdateDebt(id, active) ==
    /\ FindDebtRows(debts, id) # {}
    /\ debts' = [i \in 1..Len(debts) |->
                   IF debts[i].id = id
                   THEN [debts[i] EXCEPT !.active = IF active THEN "TRUE" ELSE "FALSE"]
                   ELSE debts[i]]
    /\ UNCHANGED <<expenses, history, req>>

\* ----------------------------------------------------------- specifications
AccrueStep(p) ==
    \/ AccrueCheckHistory(p)
    \/ AccrueFindRow(p)
    \/ AccrueGetRow(p)
    \/ AccrueReadExpenses(p)
    \/ AccrueCarryOver(p)
    \/ AccruePaymentMade(p)
    \/ AccruePersist(p)

PreviewStep(p) ==
    \/ PreviewCheckHistory(p)
    \/ PreviewReadExpenses(p)
    \/ PreviewCarryOver(p)
    \/ PreviewPaymentMade(p)

\* The query of a request: a period tag, or else a reference date.
Queries == {<<period, Null>> : period \in Periods} \cup {<<<<>>, base>> : base \in BaseDates}

\* Requests are served one at a time (no two handler invocations overlap);
\* which slot serves a request makes no difference, so slot 1 serves all.
Next ==
    \/ \E id \in DebtIds, recompute \in BOOLEAN, q \in Queries :
         \/ AccrueLoadDebt(1, id, recompute, q[1], q[2])
         \/ PreviewLoadDebt(1, id, recompute, q[1], q[2])
         \/ \E op \in {"accrue", "preview"} :
              GetDebtsFail(1, op, id, recompute, q[1], q[2])
    \/ \E i \in DOMAIN DebtRows, periodDate \in PeriodDates, ob \in OptBalances :
         Calculate(1, i, periodDate, ob)
    \/ \E p \in Procs : AccrueStep(p) \/ PreviewStep(p) \/ IOFail(p) \/ Return(p)
    \/ \E e \in ExpensePool : AddExpense(e)
    \/ \E id \in UpdatedDebtIds, active \in ActiveValues : UpdateDebt(id, active)

Spec == Init /\ [][Next]_vars

\* Accrue requests overlap freely: every await is a point where another
\* invocation may run.
ConcDebtIds == {"d1"}
ConcPeriods == {<<2024, 2>>}

NextConc ==
    \/ \E p \in Procs, id \in ConcDebtIds, recompute \in BOOLEAN, period \in ConcPeriods :
         \/ AccrueLoadDebt(p, id, recompute, period, Null)
         \/ GetDebtsFail(p, "accrue", id, recompute, period, Null)
    \/ \E p \in Procs : AccrueStep(p) \/ IOFail(p) \/ Return(p)
    \/ \E e \in ExpensePool : AddExpense(e)

SpecConc == Init /\ [][NextConc]_vars

\* ------------------------------------------------- date resolution at large
\* The cutoff and due day cells an account row may hold: blank, every day
\* 1..31, and the out-of-range 0 and 40.
DateCutOffDays == {Null} \cup (0..31) \cup {40}
DateDueDays == {Null, 0, 5, 31, 40}

\* Registries of one active account: every cutoff day with due day 5, and
\* every due day with cutoff day 15.
DateRegistries ==
    {<<DebtRow("d1", 100, 5, c, 36, "TRUE")>> : c \in DateCutOffDays}
        \cup {<<DebtRow("d1", 100, u, 15, 36, "TRUE")>> : u \in DateDueDays}

\* Period tags (a leap and a common February, a 30-day month) and reference
\* dates around the ends of February and March.
DatePeriods == {<<2024, 2>>, <<2024, 4>>, <<2025, 2>>}
DateBases ==
    {NewDate(2024, 1, 27), NewDate(2024, 1, 28), NewDate(2024, 1, 29),
     NewDate(2024, 2, 1), NewDate(2024, 2, 2), NewDate(2024, 2, 30),
     NewDate(2024, 2, 31), NewDate(2025, 1, 28)}
DateQueries ==
    {<<period, Null>> : period \in DatePeriods}
        \cup {<<<<>>, base>> : base \in DateBases}

InitDates ==
    /\ debts \in DateRegistries
    /\ expenses = <<>>
    /\ history = <<>>
    /\ req = [p \in Procs |-> Idle]

\* The handlers and calculateStatement over one account whose cutoff and
\* due day range over every value; the ledger stays empty.
NextDates ==
    \/ \E recompute \in BOOLEAN, q \in DateQueries :
         \/ AccrueLoadDebt(1, "d1", recompute, q[1], q[2])
         \/ PreviewLoadDebt(1, "d1", recompute, q[1], q[2])
    \/ \E periodDate \in DateBases, ob \in OptBalances :
         Calculate(1, 1, periodDate, ob)
    \/ AccrueStep(1) \/ PreviewStep(1) \/ IOFail(1) \/ Return(1)

SpecDates == InitDates /\ [][NextDates]_vars

\* ------------------------------------------------- the interest walk, alone
\* The ledger rows of the walk: a charge and a payment on one day, a payment
\* larger than any balance, a charge after it, events on both bounds of the
\* window, a row of another account, a zero amount and a foreign kind.
WalkPool ==
    { Expense("w1", <<2024, 2, 10>>, 20000, "d1", "charge", ""),
      Expense("w2", <<2024, 2, 10>>, 150, "d1", "payment", ""),
      Expense("w3", <<2024, 2, 20>>, 30000, "d1", "payment", ""),
      Expense("w4", <<2024, 1, 31>>, 5000, "d1", "charge", ""),
      Expense("w5", <<2024, 2, 29>>, 50, "d1", "payment", ""),
      Expense("w6", <<2024, 2, 12>>, 700, "d2", "charge", ""),
      Expense("w7", <<2024, 2, 14>>, 0, "d1", "charge", ""),
      Expense("w8", <<2024, 2, 16>>, 300, "d1", "transfer", ""),
      Expense("w9", <<2024, 2, 25>>, 900, "d1", "charge", "") }

\* Every ledger of at most MaxEvents rows of the pool, in every order.
WalkLedgers ==
    UNION { { l \in [1..n -> WalkPool] :
                \A i, j \in 1..n : i # j => l[i] # l[j] } : n \in 0..MaxEvents }

\* The arguments of the walk: previous balance, annual rate (hundredths)
\* and window <<start, end>>.
WalkBalances == {0, 100, 10000}
WalkRates == {36, 20}
WalkWindows ==
    { <<NewDate(2024, 0, 31), NewDate(2024, 1, 29)>>,
      <<NewDate(2024, 1, 29), NewDate(2024, 2, 31)>> }

InitWalk ==
    /\ debts = DebtRows
    /\ expenses \in WalkLedgers
    /\ history = <<>>
    /\ req = [p \in Procs |-> Idle]

\* buildEvents(expenses, debtId, start, end) and the first lines of
\* computeSpdInterests: the balances and the cursor before the loop.
WalkStart(p, debtId, previousBalance, annualRateUnit, start, end) ==
    /\ req[p].pc = "idle"
    /\ req' = [req EXCEPT ![p] =
                 [op |-> "walk", pc |-> "walk", id |-> debtId,
                  previousBalance |-> previousBalance,
                  annualRateUnit |-> annualRateUnit,
                  start |-> start, end |-> end,
                  periodEvents |-> buildEvents(expenses, debtId, start, end),
                  events |-> buildEvents(expenses, debtId, start, end),
                  st |-> [nbBalance |-> Max(0, previousBalance), bBalance |-> 0,
                          nbBalanceDays |-> 0, bBalanceDays |-> 0,
                          cursor |-> start],
                  interestSobreSaldo |-> Null, interestBonificable |-> Null,
                  result |-> "none"]]
    /\ UNCHANGED <<debts, expenses, history>>

\* One turn of for (const ev of events): addSegment(ev.date), then the
\* event is applied.
WalkEvent(p) ==
    /\ req[p].pc = "walk"
    /\ req[p].events # <<>>
    /\ req' = [req EXCEPT ![p].st =
                     applyEvent(addSegment(req[p].st, Head(req[p].events).date),
                                Head(req[p].events)),
                           ![p].events = Tail(req[p].events)]
    /\ UNCHANGED <<debts, expenses, history>>

\* After the loop: addSegment(end) and the two interests.
WalkEnd(p) ==
    LET End(st) ==
            [req[p] EXCEPT
                !.st = st, !.pc = "done", !.result = "walked",
                !.interestSobreSaldo =
                    RoundDiv(st.nbBalanceDays * req[p].annualRateUnit, 36500),
                !.interestBonificable =
                    RoundDiv(st.bBalanceDays * req[p].annualRateUnit, 36500)]
    IN
    /\ req[p].pc = "walk"
    /\ req[p].events = <<>>
    /\ req' = [req EXCEPT ![p] = End(addSegment(req[p].st, req[p].end))]
    /\ UNCHANGED <<debts, expenses, history>>

NextWalk ==
    \/ \E previousBalance \in WalkBalances, annualRateUnit \in WalkRates,
          w \in WalkWindows :
         WalkStart(1, "d1", previousBalance, annualRateUnit, w[1], w[2])
    \/ WalkEvent(1)
    \/ WalkEnd(1)
    \/ Return(1)

SpecWalk == InitWalk /\ [][NextWalk]_vars

\* ------------------------------------------- preview, then accrue, one key
\* Slot 2 serves the previews and slot 1 the accrue calls, one request at a
\* time.  While the answer of a preview is held, the ledger is left alone
\* and only the key of the preview is accrued, so that the preview and the
\* accrue call that follows it see the same sheets.
PairDebtIds == {"d1"}
PairPeriods == {<<2024, 2>>, <<2024, 3>>}

PairPreview(id, recompute, period) ==
    /\ req[1].pc = "idle"
    /\ PreviewLoadDebt(2, id, recompute, period, Null)

PairAccrue(id, recompute, period) ==
    /\ \/ req[2].pc = "idle"
       \/ req[2].pc = "done" /\ req[2].id = id /\ req[2].period = period
    /\ AccrueLoadDebt(1, id, recompute, period, Null)

PairAddExpense(e) ==
    /\ req[1].pc = "idle" /\ req[2].pc = "idle"
    /\ AddExpense(e)

NextPair ==
    \/ \E id \in PairDebtIds, recompute \in BOOLEAN, period \in PairPeriods :
         \/ PairPreview(id, recompute, period)
         \/ PairAccrue(id, recompute, period)
    \/ AccrueStep(1)
    \/ PreviewStep(2)
    \/ \E p \in Procs : Return(p)
    \/ \E e \in ExpensePool : PairAddExpense(e)

SpecPair == Init /\ [][NextPair]_vars

\* ------------------------------------------------------------- properties
\* The data rows of the store that carry the key (debtId, statementDate).
RowsOfKey(rows, id, statementDateStr) ==
    {i \in 1..Len(rows) : rows[i][1] = id /\ rows[i][2] = statementDateStr}

\* C1: once a record for the key is in the statement store, an accrue call
\* with recompute=false for that key performs no write: every step that
\* changes the store is the persist step of an accrue call that either
\* asked for a recompute or found the key absent from the store, and a
\* recompute=false call that saw the key ends with no write made.
C1_NoWriteOnceRecorded ==
    [][/\ history' # history =>
           \E p \in Procs :
               /\ req[p].op = "accrue" /\ req[p].pc = "persist"
               /\ req'[p].pc = "done"
               /\ \/ req[p].recompute
                  \/ RowsOfKey(history, req[p].id,
                               toISOString(req[p].statementDate)) = {}
       /\ \A p \in Procs :
             (/\ req'[p].pc = "done" /\ req'[p].op = "accrue"
              /\ ~req'[p].recompute /\ req'[p].exists)
             => req'[p].writes = 0 /\ history' = history]_vars

\* C1 happens: a recompute=false accrue call has ended on a recorded key
\* without writing.
C1_Witness ==
    \E p \in Procs :
        /\ req[p].pc = "done" /\ req[p].op = "accrue"
        /\ ~req[p].recompute /\ req[p].exists /\ req[p].writes = 0
        /\ RowsOfKey(history, req[p].id, toISOString(req[p].statementDate)) # {}

\* C2: after any sequence of non-overlapping accrue calls from an empty
\* store, the store holds at most one record per (account, statement date).
C2_OneRecordPerKey ==
    \A i, j \in 1..Len(history) :
        (history[i][1] = history[j][1] /\ history[i][2] = history[j][2]) => i = j

\* C2 happens: a recompute=true call has overwritten the record of its key
\* in a store of two records.
C2_Witness ==
    /\ Len(history) >= 2
    /\ \E p \in Procs :
          /\ req[p].pc = "done" /\ req[p].op = "accrue" /\ req[p].result = "created"
          /\ req[p].recompute /\ req[p].exists /\ req[p].writes = 1

\* C3: when two accrue calls with recompute=false for the same account and
\* cycle overlap on a store where the key is absent, the store ends with at
\* most one record for the key.
C3_ConcurrentNoDoubleAppend ==
    \A p, q \in Procs :
        (/\ p # q
         /\ req[p].pc = "done" /\ req[q].pc = "done"
         /\ req[p].op = "accrue" /\ req[q].op = "accrue"
         /\ ~req[p].recompute /\ ~req[q].recompute
         /\ ~req[p].exists /\ ~req[q].exists
         /\ req[p].result = "created" /\ req[q].result = "created"
         /\ req[p].id = req[q].id
         /\ req[p].statementDate = req[q].statementDate)
        => Cardinality(RowsOfKey(history, req[p].id,
                                 toISOString(req[p].statementDate))) <= 1

\* C4: for an active account whose key is absent from the store, an accrue
\* call with recompute=false that completes leaves exactly one new record for
\* the key, equal field by field (as read back from the sheet) to the record
\* returned, and leaves every record stored before unchanged.
C4_AppendsReturnedRecord ==
    [][\A p \in Procs :
         (/\ req[p].op = "accrue" /\ req[p].pc = "persist"
          /\ ~req[p].recompute /\ ~req[p].exists
          /\ req'[p].pc = "done" /\ req'[p].result = "created")
         => /\ Len(history') = Len(history) + 1
            /\ \A i \in 1..Len(history) : history'[i] = history[i]
            /\ RowsOfKey(history', req[p].id, toISOString(req[p].statementDate))
                 = {Len(history')}
            /\ getCreditHistoryObjects(history')[Len(history')] = req'[p].record
            /\ req'[p].record.debtId = req[p].id
            /\ req'[p].record.statementDate = toISOString(req[p].statementDate)
            /\ req'[p].writes = 1]_vars

\* C4 happens: a recompute=false call on an absent key has answered with the
\* record it appended below a record stored before.
C4_Witness ==
    \E p \in Procs :
        /\ req[p].pc = "done" /\ req[p].op = "accrue" /\ req[p].result = "created"
        /\ ~req[p].recompute /\ ~req[p].exists /\ req[p].writes = 1
        /\ Len(history) = 2
        /\ ObjectOfRow(history[2]) = req[p].record
        /\ req[p].record.charges # req[p].record.payments

\* C5: for a key already recorded, an accrue call with recompute=true
\* replaces the record in place: the number of records is unchanged, the
\* store holds exactly one record for the key, equal to the newly computed
\* record, whose previous balance comes from the current prior record, and
\* the records of all other keys are unchanged.
C5_RecomputeReplacesInPlace ==
    [][\A p \in Procs :
         (/\ req[p].op = "accrue" /\ req[p].pc = "persist"
          /\ req[p].recompute /\ req[p].exists
          /\ req'[p].pc = "done" /\ req'[p].result = "created")
         => LET sdStr == toISOString(req[p].statementDate)
                K     == RowsOfKey(history', req[p].id, sdStr)
                prior == LastForDebtSet(getCreditHistoryObjects(history),
                                        req[p].id, sdStr)
            IN  /\ Len(history') = Len(history)
                /\ Cardinality(K) = 1
                /\ K = RowsOfKey(history, req[p].id, sdStr)
                /\ \A i \in 1..Len(history') :
                      IF i \in K
                      THEN ObjectOfRow(history'[i]) = req'[p].record
                      ELSE history'[i] = history[i]
                /\ \E last \in (IF prior = {} THEN {BlankRecord} ELSE prior) :
                      req'[p].record.previousBalance
                        = PreviousBalanceOf(last, req[p].debt)
                /\ req'[p].writes = 1]_vars

\* C5 happens: a recompute=true call on a recorded key has answered, and the
\* store of two records holds the record it returned.
C5_Witness ==
    \E p \in Procs :
        /\ req[p].pc = "done" /\ req[p].op = "accrue" /\ req[p].result = "created"
        /\ req[p].recompute /\ req[p].exists
        /\ Len(history) = 2
        /\ \E i \in 1..Len(history) :
              /\ ObjectOfRow(history[i]) = req[p].record
              /\ RowsOfKey(history, req[p].id, toISOString(req[p].statementDate)) = {i}

\* C6: an accrue call with recompute=false for a key already recorded ends
\* with the non-error result Skipped (HTTP 200), never with an error.
C6_RecordedIsSkipped ==
    \A p \in Procs :
        (/\ req[p].pc = "done" /\ req[p].op = "accrue"
         /\ ~req[p].recompute /\ req[p].exists)
        => req[p].result = "skipped" /\ HttpStatus(req[p].result) = 200

\* C7: for an account whose active flag is false, accrue (the registry read
\* having answered) returns Skipped at once, whatever the period, date and
\* recompute value and whether or not the key is recorded: no history read,
\* no write, the store unchanged.
C7_InactiveIsSkipped ==
    [][\A p \in Procs :
         (/\ req[p].pc = "idle" /\ req'[p].op = "accrue"
          /\ req'[p].result # "IOError"
          /\ \E i \in 1..Len(debts) :
                /\ debts[i].id = req'[p].id
                /\ debts[i].active # "TRUE"
                /\ \A j \in 1..(i - 1) : debts[j].id # req'[p].id)
         => /\ req'[p].pc = "done"
            /\ req'[p].result = "skipped"
            /\ HttpStatus(req'[p].result) = 200
            /\ req'[p].writes = 0
            /\ history' = history]_vars

\* C7 happens: an accrue call with recompute=true on a deactivated account
\* has been skipped while the store holds a record of that account for the
\* period asked.
C7_Witness ==
    \E p \in Procs :
        /\ req[p].pc = "done" /\ req[p].op = "accrue" /\ req[p].result = "skipped"
        /\ req[p].recompute
        /\ \E i \in 1..Len(history) :
              /\ history[i][1] = req[p].id
              /\ req[p].period = <<history[i][2][1], history[i][2][2]>>

\* C8: when the identifier resolves to no account of the registry, accrue
\* and preview (the registry read having answered) fail with NotFound,
\* HTTP 404, and the store is left unchanged.
C8_UnknownIsNotFound ==
    [][\A p \in Procs :
         (/\ req[p].pc = "idle" /\ req'[p].op \in {"accrue", "preview"}
          /\ req'[p].result # "IOError"
          /\ \A i \in 1..Len(debts) : debts[i].id # req'[p].id)
         => /\ req'[p].pc = "done"
            /\ req'[p].result = "NotFound"
            /\ HttpStatus(req'[p].result) = 404
            /\ req'[p].writes = 0
            /\ history' = history]_vars

\* C8 happens: an accrue call and then a preview call for an unknown
\* identifier have ended NotFound against a store that holds records.
C8_Witness ==
    \E p \in Procs :
        /\ req[p].pc = "done" /\ req[p].op = "preview" /\ req[p].result = "NotFound"
        /\ \A i \in 1..Len(debts) : debts[i].id # req[p].id
        /\ Len(history) >= 1

\* C9: every record written to the store by accrue and every statement
\* returned by accrue, preview or calculateStatement has
\* statementBalance = max(0, previousBalance + charges + interests - payments),
\* hence statementBalance >= 0.
C9_StatementBalance ==
    LET Holds(rec) ==
            /\ rec.statementBalance
                 = (IF rec.previousBalance + rec.charges + rec.interests - rec.payments > 0
                    THEN rec.previousBalance + rec.charges + rec.interests - rec.payments
                    ELSE 0)
            /\ rec.statementBalance >= 0
    IN  /\ \A i \in 1..Len(history) : Holds(ObjectOfRow(history[i]))
        /\ \A p \in Procs :
              (/\ req[p].pc = "done"
               /\ req[p].result \in {"created", "preview", "cached", "calculated"})
              => Holds(req[p].record)

\* C9 happens: the store holds a record whose payments exceed the rest, with
\* the balance floored at zero, and calculateStatement has returned such a
\* statement.
C9_Witness ==
    /\ \E i \in 1..Len(history) :
          /\ history[i][4] + history[i][5] + history[i][6] - history[i][7] < 0
          /\ history[i][8] = 0
    /\ \E p \in Procs :
          /\ req[p].pc = "done" /\ req[p].result = "calculated"
          /\ req[p].record.previousBalance + req[p].record.charges
               + req[p].record.interests - req[p].record.payments < 0

\* C10: every record written to the store has
\* installmentBalance = statementBalance + bonifiable interest, hence
\* installmentBalance >= statementBalance (all rates being non-negative).
C10_InstallmentBalance ==
    \A i \in 1..Len(history) :
        /\ ObjectOfRow(history[i]).installmentBalance
             = ObjectOfRow(history[i]).statementBalance
               + ObjectOfRow(history[i]).bonifiableInterest
        /\ ObjectOfRow(history[i]).installmentBalance
             >= ObjectOfRow(history[i]).statementBalance

\* C10 happens: the store holds a record with bonifiable interest, whose
\* installment balance is above its statement balance.
C10_Witness ==
    \E i \in 1..Len(history) :
        /\ ObjectOfRow(history[i]).bonifiableInterest > 0
        /\ ObjectOfRow(history[i]).installmentBalance
             > ObjectOfRow(history[i]).statementBalance

\* C11: whenever accrue computes a cycle for which a record of the prior
\* cycle is in the store (target key absent or being recomputed), the
\* carry-over it adds to the interest is max(0, prior.bonifiableInterest - P),
\* P being the ledger payments of the account dated from the prior record's
\* statement date to its due date; it is 0 when no prior record exists.
C11_CarryOverFromPriorRecord ==
    [][\A p \in Procs :
         (/\ req[p].op = "accrue"
          /\ req[p].pc \in {"getExpenses", "carryOver"}
          /\ req'[p].pc = "paymentMade")
         => LET Carry(earlier) ==
                    IF earlier = {}
                    THEN req'[p].interestCarryOver = 0
                    ELSE \E i \in earlier :
                           /\ \A j \in earlier : ~IsoLess(history[i][2], history[j][2])
                           /\ req'[p].interestCarryOver
                                = (IF history[i][9]
                                       - sumPaymentsForDebt(expenses, req[p].id,
                                                            history[i][2], history[i][3]) > 0
                                   THEN history[i][9]
                                       - sumPaymentsForDebt(expenses, req[p].id,
                                                            history[i][2], history[i][3])
                                   ELSE 0)
            IN  Carry({i \in 1..Len(history) :
                         /\ history[i][1] = req[p].id
                         /\ IsoLess(history[i][2],
                                    toISOString(req[p].statementDate))})]_vars

\* C12: the previous balance of a cycle, in accrue and in preview, is the
\* statementBalance of the stored record of the same account with the
\* greatest statement date strictly before the cycle's, or the balance field
\* of the account as read by the call when the store holds no earlier record
\* of the account; it is the previousBalance of the record produced.
C12_PreviousBalanceFromPriorRecord ==
    [][\A p \in Procs :
         /\ (/\ req[p].op \in {"accrue", "preview"}
             /\ req[p].pc = "getHistory"
             /\ req'[p].pc \notin {"getHistory", "done"})
            => LET Prev(earlier) ==
                       IF earlier = {}
                       THEN req'[p].previousBalance = req[p].debt.balance
                       ELSE \E i \in earlier :
                              /\ \A j \in earlier :
                                    ~IsoLess(history[i][2], history[j][2])
                              /\ req'[p].previousBalance = history[i][8]
               IN  Prev({i \in 1..Len(history) :
                           /\ history[i][1] = req[p].id
                           /\ IsoLess(history[i][2],
                                      toISOString(req[p].statementDate))})
         /\ (/\ req[p].pc \in {"paymentMade", "persist"}
             /\ req'[p].pc = "done"
             /\ req'[p].result \in {"created", "preview"})
            => req'[p].record.previousBalance = req[p].previousBalance]_vars

\* C12 happens: accrue has recorded a cycle whose previous balance is the
\* statement balance of the earlier record of the account, which differs
\* from the balance field of the account.
C12_Witness ==
    \E p \in Procs :
        /\ req[p].pc = "done" /\ req[p].op = "accrue" /\ req[p].result = "created"
        /\ Len(history) = 2
        /\ history[1][1] = req[p].id
        /\ IsoLess(history[1][2], history[2][2])
        /\ ObjectOfRow(history[2]) = req[p].record
        /\ req[p].record.previousBalance = history[1][8]
        /\ \A i \in 1..Len(debts) :
              debts[i].id = req[p].id => debts[i].balance # history[1][8]

\* C13: for an account with a cutoff day in 1..31, the ledger window of a
\* recorded cycle starts at the previous statement date (the cutoff day
\* clamped to the length of the month before the statement date's month),
\* and the recorded periodDays is the number of calendar days from that
\* date to the statement date.
C13_PeriodDaysFromPreviousStatement ==
    \A i \in 1..Len(history), k \in 1..Len(debts) :
        (/\ debts[k].id = history[i][1]
         /\ debts[k].cutOffDay \in 1..31)
        => LET Days(y, m0) ==
                   history[i][13]
                     = ParseISO(history[i][2])
                       - NewDate(y, m0 - 1,
                                 Min(debts[k].cutOffDay,
                                     NewDate(y, m0, 1) - NewDate(y, m0 - 1, 1)))
           IN  Days(history[i][2][1], history[i][2][2] - 1)

\* C16: for every resolved cycle (recorded by accrue, returned by preview
\* or by calculateStatement; due day configured or defaulted to the 25th),
\* the due date is on or after the statement date and its day of month is
\* the due day clamped to the length of its month.
C16_DueDateOnOrAfterStatement ==
    LET Holds(id, statementDate, dueDate) ==
            /\ ~IsoLess(dueDate, statementDate)
            /\ \A k \in 1..Len(debts) :
                  debts[k].id = id
                  => dueDate[3]
                       = Min(IF debts[k].dueDay = Null THEN 25 ELSE debts[k].dueDay,
                             NewDate(dueDate[1], dueDate[2], 1)
                               - NewDate(dueDate[1], dueDate[2] - 1, 1))
    IN  /\ \A i \in 1..Len(history) :
              Holds(history[i][1], history[i][2], history[i][3])
        /\ \A p \in Procs :
              /\ (req[p].pc = "done" /\ req[p].result = "preview")
                 => Holds(req[p].id, req[p].record.statementDate,
                          req[p].record.dueDate)
              /\ (req[p].pc = "done" /\ req[p].result = "calculated")
                 => Holds(req[p].id, req[p].record.dates.statementDate,
                          req[p].record.dates.dueDate)

\* C17: for an existing, active account, a period tag whose month is not
\* 01..12 makes accrue and preview (the registry read having answered) fail
\* with InvalidArgument, HTTP 400, and nothing is written to the store.
C17_InvalidPeriodIsRejected ==
    [][\A p \in Procs :
         (/\ req[p].pc = "idle" /\ req'[p].op \in {"accrue", "preview"}
          /\ req'[p].result # "IOError"
          /\ req'[p].period # <<>>
          /\ req'[p].period[2] \notin 1..12
          /\ \E i \in 1..Len(debts) :
                /\ debts[i].id = req'[p].id
                /\ debts[i].active = "TRUE"
                /\ \A j \in 1..(i - 1) : debts[j].id # req'[p].id)
         => /\ req'[p].pc = "done"
            /\ req'[p].result = "InvalidArgument"
            /\ HttpStatus(req'[p].result) = 400
            /\ req'[p].writes = 0
            /\ history' = history]_vars

\* C17 happens: accrue with the tag 2024-13 on an active account has ended
\* InvalidArgument against a store that holds a record of the account.
C17_Witness ==
    \E p \in Procs :
        /\ req[p].pc = "done" /\ req[p].op = "accrue"
        /\ req[p].result = "InvalidArgument"
        /\ req[p].period = <<2024, 13>>
        /\ \E i \in 1..Len(history) : history[i][1] = req[p].id

\* C14: with a period tag YYYY-MM, the statement date resolved by accrue
\* and preview lies in the tagged month, on day min(c, last day of the month)
\* for a cutoff day c in 1..31, and on the last day of the month when no
\* cutoff day is configured.
C14_TaggedStatementDate ==
    \A p \in Procs :
        (/\ req[p].op \in {"accrue", "preview"}
         /\ req[p].pc # "idle"
         /\ req[p].period # <<>>
         /\ req[p].statementDate # Null
         /\ debts[1].cutOffDay \in {Null} \cup (1..31))
        => LET DaysIn(y, m0) == NewDate(y, m0 + 1, 1) - NewDate(y, m0, 1)
               Day(c, last) == IF c = Null THEN last ELSE Min(c, last)
           IN  toISOString(req[p].statementDate)
                 = << req[p].period[1], req[p].period[2],
                      Day(debts[1].cutOffDay,
                          DaysIn(req[p].period[1], req[p].period[2] - 1)) >>

\* C14 happens: accrue of 2024-02 for cutoff day 31 recorded the statement
\* date 2024-02-29.
C14_Witness ==
    /\ debts[1].cutOffDay = 31
    /\ req[1].pc = "done" /\ req[1].op = "accrue" /\ req[1].result = "created"
    /\ req[1].period = <<2024, 2>>
    /\ req[1].record.statementDate = <<2024, 2, 29>>
    /\ \E i \in 1..Len(history) : history[i][2] = <<2024, 2, 29>>

\* C15: with a reference date only and a cutoff day c in 1..31, the
\* statement date resolved by accrue, preview and calculateStatement is a
\* clamped cutoff-day occurrence, is not after the reference date, and no
\* later occurrence is on or before the reference date.
C15_LatestCutOffOnOrBefore ==
    LET DaysIn(y, m0) == NewDate(y, m0 + 1, 1) - NewDate(y, m0, 1)
        IsCut(c, t) ==
            getDate(t) = Min(c, DaysIn(getFullYear(t), getMonth(t)))
        Latest(c, sd, base) ==
            /\ sd <= base
            /\ IsCut(c, sd)
            /\ \A t \in (sd + 1)..base : ~IsCut(c, t)
    IN  \A p \in Procs :
          /\ (/\ req[p].op \in {"accrue", "preview"}
               /\ req[p].pc # "idle"
               /\ req[p].period = <<>>
               /\ req[p].statementDate # Null
               /\ debts[1].cutOffDay \in 1..31)
              => Latest(debts[1].cutOffDay, req[p].statementDate, req[p].base)
          /\ (/\ req[p].op = "calculate"
               /\ req[p].pc = "done"
               /\ debts[1].cutOffDay \in 1..31)
              => Latest(debts[1].cutOffDay,
                        ParseISO(req[p].record.dates.statementDate), req[p].base)

\* C15 happens: preview at 2024-03-30 for cutoff day 31 fell back to the
\* clamped February cutoff 2024-02-29.
C15_Witness ==
    /\ debts[1].cutOffDay = 31
    /\ req[1].pc = "done" /\ req[1].op = "preview" /\ req[1].result = "preview"
    /\ req[1].period = <<>>
    /\ req[1].base = NewDate(2024, 2, 30)
    /\ req[1].record.statementDate = <<2024, 2, 29>>

\* C18: when the account has a cutoff day or due day outside 1..31, accrue
\* and preview end with InvalidArgument (or with the failure of a read) and
\* no record is written.
C18_OutOfRangeDayIsRejected ==
    LET OutOfRange(day) == day # Null /\ day \notin 1..31
    IN  (OutOfRange(debts[1].cutOffDay) \/ OutOfRange(debts[1].dueDay))
        => /\ history = <<>>
           /\ \A p \in Procs :
                (req[p].pc = "done" /\ req[p].op \in {"accrue", "preview"})
                => req[p].result \in {"InvalidArgument", "IOError"}

\* C19: every step of accrue that leaves the carry-over check either ends
\* the call with the failure of the read, nothing written, or carries the
\* interest computed from the payments actually in the ledger; the carry-over
\* is never a default put in place of a failed read.
C19_FailedReadEndsAccrue ==
    [][\A p \in Procs :
         (/\ req[p].op = "accrue" /\ req[p].pc = "carryOver"
          /\ req'[p] # req[p])
         => \/ /\ req'[p].pc = "done"
               /\ req'[p].result = "IOError"
               /\ req'[p].writes = 0
               /\ history' = history
            \/ req'[p].interestCarryOver
                 = computeInterestCarryOver(
                       req[p].previousRecord,
                       sumPaymentsForDebt(expenses, req[p].id,
                                          req[p].previousRecord.statementDate,
                                          req[p].previousRecord.dueDate))]_vars

\* C20: a step of a preview call, from its arrival to its answer, leaves the
\* statement store, the account registry and the ledger as they were.
C20_PreviewNeverWrites ==
    [][\A p \in Procs :
         (/\ req'[p] # req[p]
          /\ (req[p].op = "preview" \/ req'[p].op = "preview")
          /\ req'[p].pc # "idle")
         => /\ history' = history
            /\ debts' = debts
            /\ expenses' = expenses
            /\ req'[p].writes = 0]_vars

\* C20 happens: a preview with recompute set, for a key that has a record,
\* has answered a computed statement and the store still holds the record.
C20_Witness ==
    \E p \in Procs :
        /\ req[p].pc = "done" /\ req[p].op = "preview"
        /\ req[p].result = "preview"
        /\ req[p].recompute /\ req[p].exists
        /\ \E i \in 1..Len(history) :
              /\ history[i][1] = req[p].id
              /\ history[i][2] = req[p].record.statementDate

C22_WalkEndsAtStatementDate ==
    [][LET Same(spd, sobreSaldo, bonificable) ==
            /\ spd.interestSobreSaldo = sobreSaldo
            /\ spd.interestBonificable = bonificable
        Within(id, rate, previousBalance, start, end, sobreSaldo, bonificable) ==
            Same(computeSpdInterests(previousBalance,
                                     buildEvents(expenses, id, start, end),
                                     rate, start, end),
                 sobreSaldo, bonificable)
    IN
    \A p \in Procs :
         /\ (/\ req[p].pc = "getExpenses"
              /\ req'[p].pc \in {"carryOver", "paymentMade"})
             => Within(req[p].id,
                       normalizeAnnualRateToUnit(req[p].debt.interesEfectivo),
                       req[p].previousBalance,
                       req[p].statementDate - req'[p].periodDays,
                       req[p].statementDate,
                       req'[p].interestSobreSaldo, req'[p].interestBonificable)
         /\ (req[p].pc = "idle" /\ req'[p].op = "calculate")
             => Within(req'[p].id,
                       req'[p].record.annualEffectiveRate,
                       req'[p].record.previousBalance,
                       ParseISO(req'[p].record.dates.statementDate)
                           - req'[p].record.periodDays,
                       ParseISO(req'[p].record.dates.statementDate),
                       req'[p].record.interests,
                       req'[p].record.bonifiableInterest)]_vars

\* C23: at each turn of the interest walk a payment is taken from the
\* carried balance nb first (down to 0) and only its remainder from the new
\* balance b (down to 0), a charge increases b only; nb and b stay >= 0, nb
\* never increases, and a payment larger than nb + b leaves both at 0.
C23_PaymentReducesCarriedFirst ==
    [][LET Turn(st, ev, next) ==
               /\ next.nbBalance >= 0 /\ next.bBalance >= 0
               /\ next.nbBalance <= st.nbBalance
               /\ ev.kind = "charge"
                    => /\ next.nbBalance = st.nbBalance
                       /\ next.bBalance = st.bBalance + ev.amount
               /\ (ev.kind = "payment" /\ ev.amount <= st.nbBalance)
                    => /\ next.nbBalance = st.nbBalance - ev.amount
                       /\ next.bBalance = st.bBalance
               /\ (ev.kind = "payment" /\ ev.amount > st.nbBalance
                      /\ ev.amount <= st.nbBalance + st.bBalance)
                    => /\ next.nbBalance = 0
                       /\ next.bBalance = st.bBalance - (ev.amount - st.nbBalance)
               /\ (ev.kind = "payment" /\ ev.amount > st.nbBalance + st.bBalance)
                    => /\ next.nbBalance = 0
                       /\ next.bBalance = 0
       IN  \A p \in Procs :
             (/\ req[p].pc = "walk" /\ req'[p].pc = "walk"
              /\ req[p].events # <<>>
              /\ req'[p].events = Tail(req[p].events))
             => Turn(req[p].st, Head(req[p].events), req'[p].st)]_vars

\* C23 happens: a payment larger than nb + b was followed by a charge, and
\* the walk ended with b equal to that charge and nb at 0.
C23_Witness ==
    /\ req[1].pc = "done" /\ req[1].op = "walk"
    /\ req[1].previousBalance = 100
    /\ Len(req[1].periodEvents) = 3
    /\ req[1].periodEvents[1].kind = "charge"
    /\ req[1].periodEvents[2].kind = "payment"
    /\ req[1].periodEvents[2].amount > req[1].periodEvents[1].amount + 100
    /\ req[1].periodEvents[3].kind = "charge"
    /\ req[1].st.nbBalance = 0
    /\ req[1].st.bBalance = req[1].periodEvents[3].amount

\* C24: the events extracted for the walk are exactly the ledger rows of the
\* account with a strictly positive amount, of kind charge or payment and
\* dated d with start <= d < end (a row dated on the previous statement date
\* is in, a row dated on the statement date is out); the ledger is unchanged.
C24_WindowIsHalfOpen ==
    [][LET Belongs(e, id, start, end) ==
               /\ e.debtId = id
               /\ e.amount > 0
               /\ e.entryType \in {"charge", "payment"}
               /\ start <= DaysFromCivil(e.date[1], e.date[2], e.date[3])
               /\ DaysFromCivil(e.date[1], e.date[2], e.date[3]) < end
           IsEventOf(ev, e) ==
               /\ ev.date = DaysFromCivil(e.date[1], e.date[2], e.date[3])
               /\ ev.kind = e.entryType
               /\ ev.amount = e.amount
           Exactly(events, rows, id, start, end) ==
               /\ Len(events) = Cardinality({i \in 1..Len(rows) :
                                               Belongs(rows[i], id, start, end)})
               /\ \A i \in 1..Len(rows) :
                     Belongs(rows[i], id, start, end)
                     <=> \E k \in 1..Len(events) : IsEventOf(events[k], rows[i])
       IN  \A p \in Procs :
             (req[p].pc = "idle" /\ req'[p].op = "walk")
             => /\ Exactly(req'[p].periodEvents, expenses, req'[p].id,
                           req'[p].start, req'[p].end)
                /\ expenses' = expenses]_vars

\* C24 happens: the ledger holds a row dated on the lower bound and a row
\* dated on the upper bound of the window; the first is among the events of
\* the walk, the second is not.
C24_Witness ==
    /\ req[1].pc = "walk" /\ req[1].op = "walk"
    /\ req[1].start = NewDate(2024, 0, 31)
    /\ req[1].end = NewDate(2024, 1, 29)
    /\ \E i \in 1..Len(expenses) : expenses[i].date = <<2024, 1, 31>>
    /\ \E i \in 1..Len(expenses) : expenses[i].date = <<2024, 2, 29>>
    /\ Len(req[1].periodEvents) = 1
    /\ req[1].periodEvents[1].date = req[1].start

\* C25: the events the walk consumes are in ascending date order, and of two
\* events of one date no charge comes before a payment, whatever the order
\* of the rows in the ledger.
C25_PaymentsBeforeChargesOnADay ==
    \A p \in Procs :
        (req[p].op = "walk" /\ req[p].pc \in {"walk", "done"})
        => \A i, j \in 1..Len(req[p].periodEvents) :
             i < j
             => /\ req[p].periodEvents[i].date <= req[p].periodEvents[j].date
                /\ ~(/\ req[p].periodEvents[i].date = req[p].periodEvents[j].date
                      /\ req[p].periodEvents[i].kind = "charge"
                      /\ req[p].periodEvents[j].kind = "payment")

\* C25 happens: the ledger lists a charge before a payment of the same day
\* and a later-dated row before both; the walk got the payment first.
C25_Witness ==
    /\ req[1].pc = "walk" /\ req[1].op = "walk"
    /\ Len(expenses) = 3
    /\ expenses[1].date = <<2024, 2, 25>>
    /\ expenses[2].date = <<2024, 2, 10>> /\ expenses[2].entryType = "charge"
    /\ expenses[3].date = <<2024, 2, 10>> /\ expenses[3].entryType = "payment"
    /\ Len(req[1].periodEvents) = 3
    /\ req[1].periodEvents[1].kind = "payment"
    /\ req[1].periodEvents[2].kind = "charge"

\* C26: the interest on the carried balance that the walk computes, with
\* the payments of a day applied before its charges, is at most the interest
\* on the carried balance of the same walk with the charges of each day
\* applied before its payments.
C26_PaymentFirstNeverCostsMore ==
    LET Swap(ev) == [ev EXCEPT !.kind = IF @ = "payment" THEN "charge"
                                        ELSE IF @ = "charge" THEN "payment" ELSE @]
        SwapAll(events) == [k \in 1..Len(events) |-> Swap(events[k])]
        ChargeFirst(events) == SwapAll(SortEvents(SwapAll(events)))
    IN  \A p \in Procs :
          (req[p].op = "walk" /\ req[p].pc = "done")
          => req[p].interestSobreSaldo
               <= computeSpdInterests(req[p].previousBalance,
                                      ChargeFirst(req[p].periodEvents),
                                      req[p].annualRateUnit,
                                      req[p].start, req[p].end).interestSobreSaldo

\* C26 happens: a walk over a charge and a payment of the same day, from a
\* positive previous balance, has ended with interest on the carried balance.
C26_Witness ==
    /\ req[1].pc = "done" /\ req[1].op = "walk"
    /\ req[1].previousBalance = 10000
    /\ req[1].interestSobreSaldo > 0
    /\ \E i, j \in 1..Len(req[1].periodEvents) :
          /\ req[1].periodEvents[i].date = req[1].periodEvents[j].date
          /\ req[1].periodEvents[i].kind = "payment"
          /\ req[1].periodEvents[j].kind = "charge"

\* C27: an accrue invocation writes the statement store at most once, at
\* its last step, after its reads and the computation of the record; an
\* invocation that ends otherwise than with a record has written nothing;
\* and a step whose read fails does not let the invocation go on to the
\* write (the carry-over it goes on with is the one the read gives).
C27_OneWriteAfterAllReads ==
    [][\A p \in Procs :
         (/\ req'[p] # req[p]
          /\ (req[p].op = "accrue" \/ req'[p].op = "accrue"))
         => /\ history' # history
                 => /\ req[p].pc = "persist"
                    /\ req[p].writes = 0
                    /\ req'[p].writes = 1
                    /\ req'[p].pc = "done"
                    /\ req'[p].result = "created"
            /\ (req'[p].pc = "done" /\ req'[p].result # "created")
                 => /\ req'[p].writes = 0
                    /\ history' = history
            /\ (req[p].pc = "carryOver" /\ req'[p].pc = "paymentMade")
                 => req'[p].interestCarryOver
                      = Max(0, req[p].previousRecord.bonifiableInterest
                                 - sumPaymentsForDebt(expenses, req[p].id,
                                       req[p].previousRecord.statementDate,
                                       req[p].previousRecord.dueDate))]_vars

\* C28: in the statement store, every record that has an earlier record of
\* the same account carries as its previous balance the statement balance of
\* the record with the greatest earlier statement date.
C28_StoredChainIsConsistent ==
    \A i \in 1..Len(history) :
        LET Earlier == {j \in 1..Len(history) :
                          /\ history[j][1] = history[i][1]
                          /\ IsoLess(history[j][2], history[i][2])}
        IN  \A j \in Earlier :
              (\A k \in Earlier : ~IsoLess(history[j][2], history[k][2]))
              => history[i][4] = history[j][8]

\* C29: for every cutoff day 1..31 the ledger window of an accrue cycle
\* starts on the statement date of the previous monthly cycle: a day is in
\* the window of the cycle exactly when it is on or after the previous
\* statement date and before the statement date, so that the windows of
\* consecutive cycles tile the calendar.
C29_WindowsTileTheCalendar ==
    LET DaysIn(y, m0) == NewDate(y, m0 + 1, 1) - NewDate(y, m0, 1)
        CutOff(c, y, m0) == NewDate(y, m0, Min(c, DaysIn(y, m0)))
        Tiles(lower, upper, previous) ==
            \A t \in (Min(lower, previous) - 1)..upper :
                (lower <= t /\ t < upper) <=> (previous <= t /\ t < upper)
    IN  \A p \in Procs :
          (/\ req[p].op = "accrue"
           /\ req[p].pc \in {"carryOver", "paymentMade", "persist"}
           /\ debts[1].cutOffDay \in 1..31)
          => Tiles(req[p].statementDate - req[p].periodDays,
                   req[p].statementDate,
                   CutOff(debts[1].cutOffDay,
                          getFullYear(req[p].statementDate),
                          getMonth(req[p].statementDate) - 1))

\* C30: with no record stored for the key, the statement a preview returns
\* and the record the accrue call that follows it computes and writes, from
\* the same account, ledger and store, are equal field by field.
C30_PreviewEqualsAccrue ==
    (/\ req[2].op = "preview" /\ req[2].pc = "done"
     /\ req[2].result = "preview" /\ ~req[2].exists
     /\ req[1].op = "accrue" /\ req[1].pc = "done"
     /\ req[1].result = "created" /\ ~req[1].exists
     /\ req[1].id = req[2].id /\ req[1].period = req[2].period)
    => /\ req[2].record.previousBalance = req[1].record.previousBalance
       /\ req[2].record.charges = req[1].record.charges
       /\ req[2].record.payments = req[1].record.payments
       /\ req[2].record.interests = req[1].record.interests
       /\ req[2].record.bonifiableInterest = req[1].record.bonifiableInterest
       /\ req[2].record.statementBalance = req[1].record.statementBalance
       /\ req[2].record.installmentBalance = req[1].record.installmentBalance
       /\ req[2].record.periodDays = req[1].record.periodDays
       /\ req[2].record.statementDate = req[1].record.statementDate
       /\ req[2].record.dueDate = req[1].record.dueDate
       /\ \E i \in 1..Len(history) : history[i] = RowOfRecord(req[1].record)

====
